---- MODULE Spec2Model ----
(***************************************************************************)
(* Distributed (MPI) and hybrid (MPI + OpenMP) brute-force key search of   *)
(* DanielRasho/Paralela-proj2: bruteforce.c, bruteforce_parallel.c,        *)
(* program.c and program_parallel.c.                                       *)
(*                                                                         *)
(* The four programs share one structure: partition [0, upper) among the   *)
(* N ranks, post one MPI_Irecv whose receive buffer is the cell 'found',   *)
(* scan the rank's range (split again among T OpenMP threads in the hybrid *)
(* programs), broadcast a hit with N MPI_Send calls, and let rank 0 print  *)
(* the result.  'variant' selects the program; the actions follow the code *)
(* of the selected program line by line.                                   *)
(*                                                                         *)
(* Scaling: the sources use upper = 2^56, 32-bit int and a poll cadence of *)
(* 10000.  The model keeps their relations (upper may exceed the int       *)
(* range; a key may be a multiple of 2^IntBits) at a size TLC can explore. *)
(***************************************************************************)
EXTENDS Integers, Sequences, FiniteSets, TLC

\* ------------------------------------------------------------ bounds
MaxWorkers == 3      \* N * T <= MaxWorkers
MaxUpper == 6        \* key-space sizes 1..MaxUpper (2^56 in the sources)
MaxHits == 2         \* at most this many keys satisfy the predicate
PollCadence == 2     \* MPI_Test every PollCadence keys (10000 in the sources)
IntBits == 1         \* width of C int in the model (32 in the sources)
MaxHybridUpper == 10 \* key-space sizes 1..MaxHybridUpper of the hybrid runs

IntMod == 2 ^ IntBits

\* The four programs.
BF == "bruteforce"
BFP == "bruteforce_parallel"
PROG == "program"
PROGP == "program_parallel"
Variants == {BF, BFP, PROG, PROGP}
Hybrid == {BFP, PROGP}
Programs == {PROG, PROGP}

VARIABLES
    variant,   \* which of the four programs runs
    N,         \* MPI_Comm_size
    T,         \* omp_get_num_threads (1 in the MPI-only programs)
    upper,     \* size of the key space
    Hits,      \* the keys for which tryKey returns 1
    ub,        \* what the build does on signed int overflow: "wrap" or "wide"
    found,     \* found[p]: the cell 'found' of rank p (also the Irecv buffer)
    req,       \* req[p]: state of the request of the MPI_Irecv of rank p
    flag,      \* flag[p]: last flag returned by MPI_Test
    chan,      \* chan[p][q]: keys sent by rank q to rank p, not yet matched
    lock,      \* lock[p]: thread inside the omp critical section, or -1
    mpc,       \* mpc[p]: position of the main thread of rank p
    pc,        \* pc[p][t]: position of worker t of rank p in its scan loop
    i,         \* i[p][t]: loop variable of worker t
    keys_tested, \* [p][t]: keys_tested / local_keys_tested, modulo PollCadence
    node,      \* node[p]: loop variable of the broadcast loop
    outcome,   \* what rank 0 printed: [status, key, n]
    sent,      \* sent[p][q]: number of MPI_Send calls of rank p to rank q
    commits,   \* commits[p]: the <<thread, key>> pairs that executed found = i
    attempts,  \* attempts[p]: the threads that entered the critical section
    late,      \* late[p][t]: tryKey calls of worker t made while found[p] # 0
    tried,     \* the keys on which tryKey has been called
    retried,   \* the keys on which tryKey has been called more than once
    payloads   \* payloads[p]: the values rank p has passed to MPI_Send

cfgvars == <<variant, N, T, upper, Hits, ub>>
vars == <<variant, N, T, upper, Hits, ub, found, req, flag, chan, lock, mpc,
          pc, i, keys_tested, node, outcome, sent, commits, attempts, late,
          tried, retried, payloads>>

Ranks == 0 .. (N - 1)
Threads == 0 .. (T - 1)

\* ------------------------------------------------------------ C arithmetic
\* Conversion of a long to int: the value modulo 2^IntBits in the int range.
ToInt(x) == ((x + (IntMod \div 2)) % IntMod) - (IntMod \div 2)

\* C integer division truncates toward zero (the divisor is positive here).
CDiv(a, b) == IF a >= 0 THEN a \div b ELSE -((-a) \div b)

\* An int result that may overflow: undefined behaviour, so the build either
\* wraps it or has widened the computation to 64 bits.
IntResult(x) == IF ub = "wrap" THEN ToInt(x) ELSE x

\* ------------------------------------------------------------ partition
\* program.c 369 / bruteforce.c 111 (int range_per_node in the bruteforce pair).
range_per_node ==
    IF variant \in Programs THEN upper \div N ELSE ToInt(upper \div N)

\* The product range_per_node * k as the program computes it.
RangeTimes(k) ==
    IF variant \in Programs THEN range_per_node * k
    ELSE IntResult(range_per_node * k)

mylower(id) == RangeTimes(id)

\* The loop bound of a rank that is not the last one with "+ 1" in place of
\* "- 1": the rank's range then reaches into the next rank's.
InnerUpperPlusOne(id) ==
    IF variant \in Programs THEN RangeTimes(id + 1) + 1
    ELSE IntResult(RangeTimes(id + 1) + 1)

\* The exclusive loop bound of a rank that is not the last one.
InnerUpper(id) ==
    IF variant \in Programs THEN RangeTimes(id + 1) - 1
    ELSE IntResult(RangeTimes(id + 1) - 1)

myupper(id) == IF id = N - 1 THEN upper ELSE InnerUpper(id)

range_size(id) == myupper(id) - mylower(id)
keys_per_thread(id) == CDiv(range_size(id), T)
thread_lower(id, t) ==
    IF variant \in Hybrid THEN mylower(id) + t * keys_per_thread(id)
    ELSE IF variant = BF THEN ToInt(mylower(id)) ELSE mylower(id)
\* The thread's upper bound without the last thread taking the remainder of
\* the division.
thread_upperNoRemainder(id, t) ==
    IF variant \in Hybrid THEN thread_lower(id, t) + keys_per_thread(id)
    ELSE myupper(id)

thread_upper(id, t) ==
    IF variant \in Hybrid
    THEN (IF t = T - 1 THEN myupper(id)
          ELSE thread_lower(id, t) + keys_per_thread(id))
    ELSE myupper(id)

\* Whether some int computation of the run can overflow, so that the two
\* outcomes of the undefined behaviour differ: the int loop counter of
\* bruteforce.c, and the int products of the bruteforce pair.
MayOverflow ==
    \/ variant = BF
    \/ /\ variant = BFP
       /\ \E k \in 0 .. N : \/ ToInt(range_per_node * k) # range_per_node * k
                            \/ ToInt(range_per_node * k - 1) # range_per_node * k - 1

\* The trial predicate.
tryKey(k) == k \in Hits

\* ------------------------------------------------------------ initial state
\* The state of every rank right after its MPI_Irecv has been posted: the
\* state outside the parallel region.
Listening ==
    /\ found = [p \in Ranks |-> 0]
    /\ req = [p \in Ranks |-> "pending"]
    /\ flag = [p \in Ranks |-> 0]
    /\ chan = [p \in Ranks |-> [q \in Ranks |-> <<>>]]
    /\ lock = [p \in Ranks |-> -1]
    /\ mpc = [p \in Ranks |-> "search"]
    /\ keys_tested = [p \in Ranks |-> [t \in Threads |-> 0]]
    /\ node = [p \in Ranks |-> 0]
    /\ outcome = [status |-> "none", key |-> 0, n |-> 0]
    /\ sent = [p \in Ranks |-> [q \in Ranks |-> 0]]
    /\ commits = [p \in Ranks |-> {}]
    /\ attempts = [p \in Ranks |-> {}]
    /\ late = [p \in Ranks |-> [t \in Threads |-> 0]]
    /\ tried = {}
    /\ retried = {}
    /\ payloads = [p \in Ranks |-> {}]

\* The receive is posted and every worker is at the first iteration of its
\* scan loop.
Posted ==
    /\ Listening
    /\ pc = [p \in Ranks |-> [t \in Threads |-> "top"]]
    /\ i = [p \in Ranks |-> [t \in Threads |-> thread_lower(p, t)]]

\* Every program, every shape of the run and every predicate within the
\* bounds.  The counters 'sent' and 'late' saturate at 2 and at
\* PollCadence + 1.
Init ==
    /\ variant \in Variants
    /\ upper \in 1 .. MaxUpper
    /\ N \in 1 .. MaxWorkers
    /\ T \in 1 .. MaxWorkers
    /\ N * T <= MaxWorkers
    /\ N <= upper
    /\ (variant \notin Hybrid) => T = 1
    /\ Hits \in {H \in SUBSET (0 .. (upper - 1)) : Cardinality(H) <= MaxHits}
    /\ ub \in {"wrap", "wide"}
    /\ (ub = "wide") => MayOverflow
    /\ Posted

\* ------------------------------------------------------------ helpers
Set2(f, p, t, v) == [f EXCEPT ![p][t] = v]

\* What the top-of-loop read of 'found' yields: program_parallel.c copies the
\* long into "int local_found"; bruteforce_parallel.c into "long local_found".
LocalFound(v) == IF variant = PROGP THEN ToInt(v) ELSE v

\* Whether this iteration polls the posted receive with MPI_Test.
Polls(p, t) ==
    CASE variant = PROG -> keys_tested[p][t] % PollCadence = 0
      [] variant = PROGP -> t = 0 /\ keys_tested[p][t] % PollCadence = 0
      [] variant = BFP -> t = 0 /\ i[p][t] % PollCadence = 0
      [] OTHER -> FALSE

\* The loop counter advancing by two keys (i += 2).
NextKeyByTwo(k) == IF variant = BF THEN IntResult(k + 2) ELSE k + 2

\* ++i: "int i" in bruteforce.c (overflow is undefined), "long i" elsewhere.
NextKey(k) == IF variant = BF THEN IntResult(k + 1) ELSE k + 1

\* keys_tested++ / local_keys_tested++, kept modulo the poll cadence; the
\* bruteforce pair has no such counter.
NextTested(c) == IF variant \in Programs THEN (c + 1) % PollCadence ELSE c

\* The request after MPI_Test / MPI_Wait has seen it complete.
Completed(r) == IF r = "matched" THEN "completed" ELSE r

\* The request after MPI_Cancel followed by MPI_Wait.
CancelWait(r) == IF r = "pending" THEN "cancelled" ELSE "completed"

\* The report with the comparison found >= 0 in place of found > 0.
ReportStatusNonNegative(f) == IF f >= 0 THEN "SUCCESS" ELSE "FAILED"

\* What rank 0 of program.c / program_parallel.c prints for a value of found.
ReportStatus(f) == IF f > 0 THEN "SUCCESS" ELSE "FAILED"

\* ------------------------------------------------------------ the scan loop
\* Grain: an action holds one access to state shared with other threads or
\* with the MPI library (found, req, the critical section, the network),
\* followed by the thread's own code up to its next such access.

\* if(tryKey(i, ...)) ... else { keys_tested++; ++i }, entered from position
\* 'from'.  A hit leads to the commit: the guarded one of the hybrid programs
\* (position "crit") or the plain found = i of the others ("write").
Trial(p, t) ==
    /\ late' = Set2(late, p, t,
                    IF found[p] # 0 /\ late[p][t] <= PollCadence
                    THEN late[p][t] + 1 ELSE late[p][t])
    /\ tried' = tried \cup {i[p][t]}
    /\ retried' = IF i[p][t] \in tried THEN retried \cup {i[p][t]} ELSE retried
    /\ IF tryKey(i[p][t])
       THEN /\ pc' = Set2(pc, p, t, IF variant \in Hybrid THEN "crit" ELSE "write")
            /\ UNCHANGED <<i, keys_tested>>
       ELSE /\ i' = Set2(i, p, t, NextKey(i[p][t]))
            /\ keys_tested' = Set2(keys_tested, p, t, NextTested(keys_tested[p][t]))
            /\ pc' = Set2(pc, p, t, "top")

\* The loop leaves (break, or its condition is false).
Leave(p, t) ==
    /\ pc' = Set2(pc, p, t, "exit")
    /\ UNCHANGED <<i, keys_tested, late, tried, retried>>

\* Whether the loop condition and the checks at the top of an iteration let
\* the iteration run.
Continues(p, t) ==
    /\ i[p][t] < thread_upper(p, t)
    /\ (variant = BF) => found[p] = 0
    /\ (variant \in Hybrid) => LocalFound(found[p]) = 0

\* Top of an iteration: loop condition, the read of 'found' (bruteforce.c in
\* the loop condition, the hybrid programs by the atomic read), then either
\* the poll or the trial.
LoopTop(p, t) ==
    /\ mpc[p] = "search"
    /\ pc[p][t] = "top"
    /\ IF ~Continues(p, t) THEN Leave(p, t)
       ELSE IF Polls(p, t)
            THEN /\ pc' = Set2(pc, p, t, "test")
                 /\ UNCHANGED <<i, keys_tested, late, tried, retried>>
            ELSE Trial(p, t)
    /\ UNCHANGED <<cfgvars, found, req, flag, chan, lock, mpc, node, outcome,
                   sent, commits, attempts, payloads>>

\* MPI_Test(&req, &flag, &st).  In program.c the test "flag && found != 0"
\* follows in the same thread with the request already complete, so it is
\* part of this step; in the hybrid programs other threads write 'found',
\* so that read is a step of its own (CheckFound).
MpiTest(p, t) ==
    /\ mpc[p] = "search"
    /\ pc[p][t] = "test"
    /\ LET f == IF req[p] = "pending" THEN 0 ELSE 1
       IN /\ flag' = [flag EXCEPT ![p] = f]
          /\ req' = [req EXCEPT ![p] = Completed(req[p])]
          /\ pc' = Set2(pc, p, t,
                        IF f = 0 THEN "try"
                        ELSE IF variant \in Hybrid THEN "chk"
                        ELSE IF found[p] # 0 THEN "exit" ELSE "try")
    /\ UNCHANGED <<cfgvars, found, chan, lock, mpc, i, keys_tested, node,
                   outcome, sent, commits, attempts, late, tried, retried,
                   payloads>>

\* if(flag && found != 0) break;   (hybrid programs, flag is 1 here)
CheckFound(p, t) ==
    /\ mpc[p] = "search"
    /\ pc[p][t] = "chk"
    /\ IF found[p] # 0 THEN Leave(p, t) ELSE Trial(p, t)
    /\ UNCHANGED <<cfgvars, found, req, flag, chan, lock, mpc, node, outcome,
                   sent, commits, attempts, payloads>>

\* The trial of an iteration that polled.
TryKey(p, t) ==
    /\ mpc[p] = "search"
    /\ pc[p][t] = "try"
    /\ Trial(p, t)
    /\ UNCHANGED <<cfgvars, found, req, flag, chan, lock, mpc, node, outcome,
                   sent, commits, attempts, payloads>>

\* #pragma omp critical { if(found == 0) ...
CritEnter(p, t) ==
    /\ mpc[p] = "search"
    /\ pc[p][t] = "crit"
    /\ lock[p] = -1
    /\ attempts' = [attempts EXCEPT ![p] = @ \cup {t}]
    /\ IF found[p] = 0
       THEN /\ lock' = [lock EXCEPT ![p] = t]
            /\ pc' = Set2(pc, p, t, "write")
       ELSE /\ pc' = Set2(pc, p, t, "exit")
            /\ UNCHANGED lock
    /\ UNCHANGED <<cfgvars, found, req, flag, chan, mpc, i, keys_tested, node,
                   outcome, sent, commits, late, tried, retried, payloads>>

\* The commit storing the key after the one that was hit (found = i + 1).
CommitWriteNextKey(p, t) ==
    /\ mpc[p] = "search"
    /\ pc[p][t] = "write"
    /\ found' = [found EXCEPT ![p] = i[p][t] + 1]
    /\ commits' = [commits EXCEPT ![p] = @ \cup {<<t, i[p][t]>>}]
    /\ node' = [node EXCEPT ![p] = 0]
    /\ pc' = Set2(pc, p, t, "send")
    /\ UNCHANGED <<cfgvars, req, flag, chan, lock, mpc, i, keys_tested,
                   outcome, sent, attempts, late, tried, retried, payloads>>

\* found = i;   inside the critical section in the hybrid programs, with no
\* guard at all in the MPI-only ones.
CommitWrite(p, t) ==
    /\ mpc[p] = "search"
    /\ pc[p][t] = "write"
    /\ found' = [found EXCEPT ![p] = i[p][t]]
    /\ commits' = [commits EXCEPT ![p] = @ \cup {<<t, i[p][t]>>}]
    /\ node' = [node EXCEPT ![p] = 0]
    /\ pc' = Set2(pc, p, t, "send")
    /\ UNCHANGED <<cfgvars, req, flag, chan, lock, mpc, i, keys_tested,
                   outcome, sent, attempts, late, tried, retried, payloads>>

\* The broadcast loop skipping the sender's own rank (if(node != id)).
SendToPeersOnly(p, t) ==
    /\ mpc[p] = "search"
    /\ pc[p][t] = "send"
    /\ chan' = IF node[p] = p THEN chan
               ELSE [chan EXCEPT ![node[p]][p] = Append(@, found[p])]
    /\ sent' = [sent EXCEPT ![p][node[p]] = IF @ < 2 THEN @ + 1 ELSE @]
    /\ payloads' = [payloads EXCEPT ![p] = @ \cup {found[p]}]
    /\ node' = [node EXCEPT ![p] = @ + 1]
    /\ IF node[p] + 1 = N
       THEN /\ pc' = Set2(pc, p, t, "exit")
            /\ lock' = [lock EXCEPT ![p] = -1]
       ELSE UNCHANGED <<pc, lock>>
    /\ UNCHANGED <<cfgvars, found, req, flag, mpc, i, keys_tested, outcome,
                   commits, attempts, late, tried, retried>>

\* One MPI_Send(&found, 1, MPI_LONG, node, ...) of the broadcast loop; the
\* 8-byte message is sent eagerly.  After the last one: leave the critical
\* section and break.
Send(p, t) ==
    /\ mpc[p] = "search"
    /\ pc[p][t] = "send"
    /\ chan' = [chan EXCEPT ![node[p]][p] = Append(@, found[p])]
    /\ sent' = [sent EXCEPT ![p][node[p]] = IF @ < 2 THEN @ + 1 ELSE @]
    /\ payloads' = [payloads EXCEPT ![p] = @ \cup {found[p]}]
    /\ node' = [node EXCEPT ![p] = @ + 1]
    /\ IF node[p] + 1 = N
       THEN /\ pc' = Set2(pc, p, t, "exit")
            /\ lock' = [lock EXCEPT ![p] = -1]
       ELSE UNCHANGED <<pc, lock>>
    /\ UNCHANGED <<cfgvars, found, req, flag, mpc, i, keys_tested, outcome,
                   commits, attempts, late, tried, retried>>

\* ------------------------------------------------------------ MPI
\* An announcement reaches rank p and matches its posted receive
\* (MPI_ANY_SOURCE; messages of one sender are matched in the order sent):
\* the MPI library writes the payload into the receive buffer, which is
\* 'found'.
Deliver(p) ==
    /\ mpc[p] # "done"
    /\ req[p] = "pending"
    /\ \E q \in Ranks :
          /\ chan[p][q] # <<>>
          /\ found' = [found EXCEPT ![p] = Head(chan[p][q])]
          /\ chan' = [chan EXCEPT ![p][q] = Tail(@)]
    /\ req' = [req EXCEPT ![p] = "matched"]
    /\ UNCHANGED <<cfgvars, flag, lock, mpc, pc, i, keys_tested, node,
                   outcome, sent, commits, attempts, late, tried, retried,
                   payloads>>

\* ------------------------------------------------------------ after the loop
\* The loop (or the parallel region) has ended.  program.c and
\* program_parallel.c: if(!flag){ MPI_Cancel(&req); MPI_Wait(&req, &st); }
\* The bruteforce pair has no such code.
Drain(p) ==
    /\ mpc[p] = "search"
    /\ \A t \in Threads : pc[p][t] = "exit"
    /\ req' = IF variant \in Programs /\ flag[p] = 0
              THEN [req EXCEPT ![p] = CancelWait(req[p])]
              ELSE req
    /\ mpc' = [mpc EXCEPT ![p] = IF p = 0 THEN "report" ELSE "final"]
    /\ UNCHANGED <<cfgvars, found, flag, chan, lock, pc, i, keys_tested, node,
                   outcome, sent, commits, attempts, late, tried, retried,
                   payloads>>

\* Rank 0 prints.  program.c / program_parallel.c: the second MPI_Wait finds
\* the request already released, then SUCCESS or FAILED by found > 0.
\* bruteforce pair: a blocking MPI_Wait on the receive, then found is printed.
Report(p) ==
    /\ p = 0
    /\ mpc[p] = "report"
    /\ IF variant \in Programs
       THEN /\ outcome' = [status |-> ReportStatus(found[p]),
                           key |-> found[p], n |-> outcome.n + 1]
            /\ UNCHANGED req
       ELSE /\ req[p] \in {"matched", "completed"}
            /\ req' = [req EXCEPT ![p] = "completed"]
            /\ outcome' = [status |-> "PRINTED", key |-> found[p],
                           n |-> outcome.n + 1]
    /\ mpc' = [mpc EXCEPT ![p] = "final"]
    /\ UNCHANGED <<cfgvars, found, flag, chan, lock, pc, i, keys_tested, node,
                   sent, commits, attempts, late, tried, retried, payloads>>

\* MPI_Finalize()
Finalize(p) ==
    /\ mpc[p] = "final"
    /\ mpc' = [mpc EXCEPT ![p] = "done"]
    /\ UNCHANGED <<cfgvars, found, req, flag, chan, lock, pc, i, keys_tested,
                   node, outcome, sent, commits, attempts, late, tried,
                   retried, payloads>>

Worker(p, t) ==
    \/ LoopTop(p, t)
    \/ MpiTest(p, t)
    \/ CheckFound(p, t)
    \/ TryKey(p, t)
    \/ CritEnter(p, t)
    \/ CommitWrite(p, t)
    \/ Send(p, t)

Main(p) == Drain(p) \/ Report(p) \/ Finalize(p)

Next ==
    \/ \E p \in Ranks : \E t \in Threads : LoopTop(p, t)
    \/ \E p \in Ranks : \E t \in Threads : MpiTest(p, t)
    \/ \E p \in Ranks : \E t \in Threads : CheckFound(p, t)
    \/ \E p \in Ranks : \E t \in Threads : TryKey(p, t)
    \/ \E p \in Ranks : \E t \in Threads : CritEnter(p, t)
    \/ \E p \in Ranks : \E t \in Threads : CommitWrite(p, t)
    \/ \E p \in Ranks : \E t \in Threads : Send(p, t)
    \/ \E p \in Ranks : Deliver(p)
    \/ \E p \in Ranks : Drain(p)
    \/ \E p \in Ranks : Report(p)
    \/ \E p \in Ranks : Finalize(p)

Spec == Init /\ [][Next]_vars

\* Every thread and every main thread keeps being scheduled, and a message
\* whose receive is posted is eventually matched.
Fairness ==
    /\ \A p \in 0 .. (MaxWorkers - 1) : \A t \in 0 .. (MaxWorkers - 1) :
          WF_vars(p \in Ranks /\ t \in Threads /\ Worker(p, t))
    /\ \A p \in 0 .. (MaxWorkers - 1) : WF_vars(p \in Ranks /\ Main(p))
    /\ \A p \in 0 .. (MaxWorkers - 1) : WF_vars(p \in Ranks /\ Deliver(p))

\* program.c and program_parallel.c with at most one satisfying key, under
\* fair scheduling.
LiveInit == Init /\ variant \in Programs /\ Cardinality(Hits) <= 1

FairSpec == LiveInit /\ [][Next]_vars /\ Fairness

\* bruteforce.c and bruteforce_parallel.c under fair scheduling.
BruteInit == Init /\ variant \in {BF, BFP}

BruteFairSpec == BruteInit /\ [][Next]_vars /\ Fairness

\* ------------------------------------------------------------ hybrid runs
\* The hybrid programs with one or two ranks, up to two ranks of two threads
\* each, and at most one satisfying key, on key spaces large enough for a
\* thread to have more than PollCadence keys left when an announcement
\* arrives.
HybridInit ==
    /\ variant \in Hybrid
    /\ upper \in 1 .. MaxHybridUpper
    /\ N \in 1 .. 2
    /\ T \in 1 .. MaxWorkers
    /\ N * T <= MaxWorkers + 1
    /\ N <= upper
    /\ Hits \in {H \in SUBSET (0 .. (upper - 1)) : Cardinality(H) <= 1}
    /\ ub \in {"wrap", "wide"}
    /\ (ub = "wide") => MayOverflow
    /\ Posted

HybridSpec == HybridInit /\ [][Next]_vars

\* ------------------------------------------------------------ thread ranges
\* The start of the parallel region of the hybrid programs, for every shape
\* of up to two ranks of up to MaxWorkers + 1 threads: each thread computes
\* its sub-range and enters its loop at thread_lower.
PartInit ==
    /\ variant \in Hybrid
    /\ upper \in 1 .. MaxHybridUpper
    /\ N \in 1 .. 2
    /\ T \in 1 .. (MaxWorkers + 1)
    /\ N <= upper
    /\ Hits = {}
    /\ ub \in {"wrap", "wide"}
    /\ (ub = "wide") => MayOverflow
    /\ Listening
    /\ pc = [p \in Ranks |-> [t \in Threads |-> "start"]]
    /\ i = [p \in Ranks |-> [t \in Threads |-> 0]]

\* long thread_lower = ...; long thread_upper = ...; for(long i = thread_lower;
ThreadStart(p, t) ==
    /\ mpc[p] = "search"
    /\ pc[p][t] = "start"
    /\ pc' = Set2(pc, p, t, "top")
    /\ i' = Set2(i, p, t, thread_lower(p, t))
    /\ UNCHANGED <<cfgvars, found, req, flag, chan, lock, mpc, keys_tested,
                   node, outcome, sent, commits, attempts, late, tried,
                   retried, payloads>>

PartNext == \E p \in Ranks : \E t \in Threads : ThreadStart(p, t)

PartSpec == PartInit /\ [][PartNext]_vars

\* ------------------------------------------------------------ end-to-end scenario
\* program_parallel.c on a key space of 64 keys with 4 ranks of 2 threads
\* each, 37 being the only key that satisfies the predicate.
ScenarioInit ==
    /\ variant = PROGP
    /\ upper = 64
    /\ N = 4
    /\ T = 2
    /\ Hits = {37}
    /\ ub = "wrap"
    /\ Posted

\* The runs of the scenario explored are those in which all workers advance
\* at the same speed: the workers take turns, in the order of their ranks and
\* thread numbers, each running one whole iteration of its loop.  Messages
\* are matched, and the main threads run, at any time.
Iterations(p, t) == i[p][t] - thread_lower(p, t)

Turn(p, t) ==
    /\ \A q \in Ranks : \A u \in Threads :
          (<<q, u>> # <<p, t>>) => pc[q][u] \in {"top", "exit"}
    /\ (pc[p][t] = "top") =>
          \A q \in Ranks : \A u \in Threads :
             (pc[q][u] = "top") =>
                \/ Iterations(p, t) < Iterations(q, u)
                \/ /\ Iterations(p, t) = Iterations(q, u)
                   /\ p * T + t <= q * T + u

ScenarioNext ==
    \/ \E p \in Ranks : \E t \in Threads : LoopTop(p, t) /\ Turn(p, t)
    \/ \E p \in Ranks : \E t \in Threads : MpiTest(p, t) /\ Turn(p, t)
    \/ \E p \in Ranks : \E t \in Threads : CheckFound(p, t) /\ Turn(p, t)
    \/ \E p \in Ranks : \E t \in Threads : TryKey(p, t) /\ Turn(p, t)
    \/ \E p \in Ranks : \E t \in Threads : CritEnter(p, t) /\ Turn(p, t)
    \/ \E p \in Ranks : \E t \in Threads : CommitWrite(p, t) /\ Turn(p, t)
    \/ \E p \in Ranks : \E t \in Threads : Send(p, t) /\ Turn(p, t)
    \/ \E p \in Ranks : Deliver(p)
    \/ \E p \in Ranks : Drain(p)
    \/ \E p \in Ranks : Report(p)
    \/ \E p \in Ranks : Finalize(p)

ScenarioSpec == ScenarioInit /\ [][ScenarioNext]_vars

\* ------------------------------------------------------------ properties
AllDone == \A p \in Ranks : mpc[p] = "done"
Reported == outcome.status # "none"
Committers(p) == {t \in Threads : \E c \in commits[p] : c[1] = t}
Scanned(id) == mylower(id) .. (myupper(id) - 1)

\* C1: in program.c and program_parallel.c the ranges [mylower, myupper) the
\* ranks scan are sorted, pairwise disjoint, and their union is [0, upper).
C1_PartitionExact ==
    (variant \in Programs) =>
        /\ \A p \in Ranks : \A q \in Ranks : p < q => myupper(p) <= mylower(q)
        /\ UNION {Scanned(p) : p \in Ranks} = 0 .. (upper - 1)

\* C2: in program.c and program_parallel.c, when exactly one key satisfies
\* the predicate, whatever rank 0 reports is SUCCESS with that key.  Stated
\* for the runs in which that key is not 0 and lies in the range some rank
\* scans, so that a violation rests neither on the partition nor on key 0.
C2_UniqueKeyFound ==
    (/\ variant \in Programs
     /\ Cardinality(Hits) = 1
     /\ 0 \notin Hits
     /\ Hits \subseteq UNION {Scanned(p) : p \in Ranks}
     /\ Reported) =>
        (outcome.status = "SUCCESS" /\ outcome.key \in Hits)

\* C3: once found[p] is non-zero, no step changes it.  Stated for the runs
\* in which key 0 does not satisfy the predicate, where the value 0 can only
\* mean "not set".
C3_FoundWriteOnce ==
    [][(0 \notin Hits) =>
        \A p \in Ranks : found[p] # 0 => found'[p] = found[p]]_vars

\* C4: in the hybrid programs at most one thread of a process executes the
\* commit (found = i and the broadcast), and when threads of a process have
\* attempted a commit while no announcement was received, exactly one did.
C4_SingleCommitter ==
    (variant \in Hybrid) =>
        \A p \in Ranks :
            /\ Cardinality(Committers(p)) <= 1
            /\ ((\E t \in attempts[p] : pc[p][t] = "exit")
                /\ req[p] \in {"pending", "cancelled"})
               => Cardinality(Committers(p)) = 1

\* C5: in program.c and program_parallel.c rank 0 reports only after every
\* rank has left its search, and never reports FAILED in a run in which a
\* rank commits a key.
C5_ReportAfterAll ==
    (variant \in Programs) =>
        /\ Reported => \A p \in Ranks : mpc[p] # "search"
        /\ ~(outcome.status = "FAILED" /\ \E p \in Ranks : commits[p] # {})

\* C6: in program.c and program_parallel.c, if no key satisfies the
\* predicate, every fair run reaches the state in which every thread has
\* exhausted its range, every rank has cancelled and awaited its receive and
\* passed MPI_Finalize, and rank 0 has reported FAILED exactly once.
C6_Exhausted ==
    /\ AllDone
    /\ \A p \in Ranks : \A t \in Threads : i[p][t] >= thread_upper(p, t)
    /\ \A p \in Ranks : req[p] = "cancelled"
    /\ outcome.status = "FAILED"
    /\ outcome.n = 1

C6_NoKeyReportsFailed ==
    (variant \in Programs /\ Hits = {}) => <>[]C6_Exhausted

C6_Witness ==
    /\ variant = PROGP /\ Hits = {} /\ N = 2 /\ upper = MaxUpper
    /\ C6_Exhausted

\* C7: in bruteforce.c and bruteforce_parallel.c, if no key satisfies the
\* predicate the run does not get stuck before every rank has passed
\* MPI_Finalize.
C7_BruteforceTerminates ==
    (variant \in {BF, BFP} /\ Hits = {}) => (AllDone \/ ENABLED Next)

\* C8: a rank that has passed MPI_Finalize has no outstanding receive: its
\* request was completed by MPI_Test / MPI_Wait, or cancelled and awaited.
C8_NoOutstandingReceive ==
    \A p \in Ranks : mpc[p] = "done" => req[p] \in {"completed", "cancelled"}

\* C9: no rank sends more than one announcement to any rank, and a rank whose
\* committing thread has left the broadcast loop has sent exactly one to each.
C9_BroadcastOnce ==
    \A p \in Ranks :
        /\ \A q \in Ranks : sent[p][q] <= 1
        /\ (commits[p] # {} /\ \A t \in Threads : pc[p][t] # "send")
           => \A q \in Ranks : sent[p][q] = 1

\* C10: in program.c and program_parallel.c no worker makes more than
\* PollCadence tryKey calls while the 'found' cell of its process is non-zero.
C10_StopWithinCadence ==
    (variant \in Programs) =>
        \A p \in Ranks : \A t \in Threads : late[p][t] <= PollCadence

\* C11: in the scenario (64 keys, 4 ranks, 2 threads each, 37 the only key)
\* the only commit of the run is that of key 37 by thread 1 of rank 2, and
\* what rank 0 reports is SUCCESS with key 37.  (The peer ranges the claim
\* recalls in parentheses are the subject of C1.)
C11_ScenarioOutcome ==
    (variant = PROGP /\ upper = 64 /\ N = 4 /\ T = 2 /\ Hits = {37}) =>
        /\ \A p \in Ranks : commits[p] \subseteq (IF p = 2 THEN {<<1, 37>>} ELSE {})
        /\ Reported => (outcome.status = "SUCCESS" /\ outcome.key = 37)

\* C12: when two ranks have committed different keys, every announcement
\* either of them sent has been matched by a receive at its destination by
\* the time every rank has passed MPI_Finalize.  Stated for the runs in
\* which key 0 does not satisfy the predicate and no rank cancelled its
\* receive, so that a violation rests neither on key 0 nor on a
\* cancellation.  (A rank posts one receive, so it never processes a second
\* announcement that could change 'found'.)
TwoFinders ==
    \E p \in Ranks : \E q \in Ranks \ {p} :
        \E c \in commits[p] : \E d \in commits[q] : c[2] # d[2]

C12_AllAnnouncementsDelivered ==
    (/\ TwoFinders
     /\ AllDone
     /\ 0 \notin Hits
     /\ \A p \in Ranks : req[p] # "cancelled") =>
        \A p \in Ranks : \A q \in Ranks : chan[p][q] = <<>>

\* C13: in the hybrid programs, a worker of a rank that has committed
\* nothing itself makes at most PollCadence tryKey calls while a peer's
\* announcement (a non-zero key) is in the 'found' cell of its rank: it
\* observes the announcement and stops instead of scanning on, whichever
\* threads of the rank are still running.
C13_ThreadsObserveAnnouncement ==
    (variant \in Hybrid) =>
        \A p \in Ranks : \A t \in Threads :
            (commits[p] = {}) => late[p][t] <= PollCadence

\* C14: in the hybrid programs, when the thread count exceeds the size of
\* the whole key space (so that some sub-range must be empty) the program
\* stops before any tryKey call is made.
C14_InvalidPartsFailFast ==
    (variant \in Hybrid /\ T > upper) => tried = {}

\* C15: in program.c and program_parallel.c, when key 0 is the only key
\* that satisfies the predicate and rank 0 itself has hit and committed it,
\* what rank 0 reports is SUCCESS with key 0.
C15_KeyZeroReported ==
    (/\ variant \in Programs
     /\ Hits = {0}
     /\ \E c \in commits[0] : c[2] = 0
     /\ Reported) =>
        (outcome.status = "SUCCESS" /\ outcome.key = 0)

\* C16: in the hybrid programs, for every rank whose range [mylower, myupper)
\* is well formed (mylower <= myupper), the sub-ranges [thread_lower,
\* thread_upper) of threads 0 .. T-1 are contiguous, sorted and pairwise
\* disjoint, and their union is [mylower, myupper): the last thread takes
\* the remainder of range_size / T.
ThreadRange(p, t) == thread_lower(p, t) .. (thread_upper(p, t) - 1)

C16_ThreadPartitionExact ==
    (variant \in Hybrid) =>
        \A p \in Ranks :
            (mylower(p) <= myupper(p)) =>
                /\ thread_lower(p, 0) = mylower(p)
                /\ thread_upper(p, T - 1) = myupper(p)
                /\ \A t \in Threads : thread_lower(p, t) <= thread_upper(p, t)
                /\ \A t \in Threads :
                      (t < T - 1) => thread_upper(p, t) = thread_lower(p, t + 1)
                /\ \A t \in Threads : \A u \in Threads :
                      (t # u) => ThreadRange(p, t) \cap ThreadRange(p, u) = {}
                /\ UNION {ThreadRange(p, t) : t \in Threads}
                      = mylower(p) .. (myupper(p) - 1)

\* Three threads have entered their loops on a range of 5 keys, which 3
\* does not divide: [0,1), [1,2) and [2,5).
C16_Witness ==
    /\ variant = PROGP /\ N = 1 /\ T = 3 /\ upper = 5
    /\ keys_per_thread(0) * T < range_size(0)
    /\ \A t \in Threads : pc[0][t] = "top"
    /\ i[0] = [t \in Threads |-> t]
    /\ thread_upper(0, 2) = 5

\* C17: in program.c and program_parallel.c tryKey is called on no key more
\* than once, over all threads of all ranks, and only on keys of [0, upper):
\* the number of tryKey calls never exceeds the size of the key space.
C17_NoKeyTriedTwice ==
    (variant \in Programs) =>
        /\ retried = {}
        /\ tried \subseteq 0 .. (upper - 1)
        /\ Cardinality(tried) <= upper

\* A finished run of MaxWorkers workers in which a key was hit and committed
\* after other keys had been tried.
C17_Witness ==
    /\ variant \in Programs /\ AllDone /\ N * T = MaxWorkers
    /\ \E p \in Ranks : commits[p] # {}
    /\ Cardinality(tried) >= 3

\* C18: in every program, a key rank 0 reports as found (SUCCESS, or the key
\* the bruteforce pair prints) satisfies the predicate and was hit and
\* committed by some rank in this run.
CommittedKeys == {c[2] : c \in UNION {commits[p] : p \in Ranks}}

C18_ReportedKeyWasCommitted ==
    (outcome.status \in {"SUCCESS", "PRINTED"}) =>
        (outcome.key \in Hits /\ outcome.key \in CommittedKeys)

\* Rank 0 has reported a key that it did not commit itself: the key reached
\* it in an announcement.
C18_Witness ==
    /\ outcome.status \in {"SUCCESS", "PRINTED"}
    /\ N >= 2
    /\ commits[0] = {}
    /\ outcome.key \in CommittedKeys

\* C19: in the hybrid programs no two threads of one process are at an MPI
\* call at the same time: while a thread is in its broadcast loop (about to
\* call MPI_Send) thread 0 is not about to call MPI_Test.
AtMpiCall(p, t) == pc[p][t] \in {"test", "send"}

C19_OneThreadInMpi ==
    (variant \in Hybrid) =>
        \A p \in Ranks : Cardinality({t \in Threads : AtMpiCall(p, t)}) <= 1

\* C20: every value a rank passes to MPI_Send is the key that this rank
\* itself committed.  Stated for the runs in which key 0 does not satisfy the
\* predicate, where a rank commits at most once.
C20_BroadcastOwnKey ==
    (0 \notin Hits) =>
        \A p \in Ranks : \A v \in payloads[p] : \E c \in commits[p] : c[2] = v

\* C21: in bruteforce.c and bruteforce_parallel.c the range of rank p starts
\* at p * floor(upper / N) and the ranges of the ranks are pairwise disjoint;
\* in bruteforce.c the loop counter of a rank stays among the keys of its
\* range (it is at mylower, at a key of [mylower, myupper), or at myupper
\* when the loop has run out), and no key is tried a second time.
ChunkStarts == \A p \in Ranks : mylower(p) = p * (upper \div N)

ChunksDisjoint ==
    \A p \in Ranks : \A q \in Ranks :
        (p # q) => Scanned(p) \cap Scanned(q) = {}

CounterInRange ==
    \A p \in Ranks :
        /\ mylower(p) <= i[p][0]
        /\ (mylower(p) <= myupper(p)) => i[p][0] <= myupper(p)

C21_IntChunkPartition ==
    /\ (variant \in {BF, BFP}) => (ChunkStarts /\ ChunksDisjoint)
    /\ (variant = BF) => (CounterInRange /\ retried = {})

\* C22: in bruteforce.c and bruteforce_parallel.c, once any rank has
\* committed a key, every fair run reaches the state in which the blocking
\* MPI_Wait of rank 0 has completed and rank 0 has printed a key that was
\* committed in the run.
PrintedCommitted ==
    /\ outcome.status = "PRINTED"
    /\ req[0] = "completed"
    /\ outcome.key \in CommittedKeys

C22_WaitCompletesAfterCommit ==
    (variant \in {BF, BFP}) =>
        ((\E p \in Ranks : commits[p] # {}) ~> PrintedCommitted)

\* Rank 0 ran out of its own range without a hit, blocked in MPI_Wait, and
\* printed the key a peer committed and announced.
C22_Witness ==
    /\ variant \in {BF, BFP}
    /\ N >= 2
    /\ commits[0] = {}
    /\ \A t \in Threads : i[0][t] >= thread_upper(0, t)
    /\ PrintedCommitted
    /\ outcome.key # 0

\* C23: in program.c and program_parallel.c every worker tries the keys of
\* its sub-range in strictly increasing order, leaving none out (its counter
\* never decreases and every satisfying key of the sub-range below the
\* counter would have been hit), and tries no key after its own hit; so a
\* key a worker commits is the smallest satisfying key of its sub-range.
AfterHit(p, t) == pc[p][t] \in {"crit", "write", "send"}

ScansInOrder ==
    \A p \in Ranks : \A t \in Threads :
        /\ thread_lower(p, t) <= i[p][t]
        /\ \A h \in Hits :
              (thread_lower(p, t) <= h /\ h < thread_upper(p, t)) => i[p][t] <= h
        /\ AfterHit(p, t) => i[p][t] \in Hits

CommitsSmallest ==
    \A p \in Ranks : \A c \in commits[p] :
        /\ c[2] \in Hits
        /\ thread_lower(p, c[1]) <= c[2] /\ c[2] < thread_upper(p, c[1])
        /\ \A h \in Hits :
              (thread_lower(p, c[1]) <= h /\ h < thread_upper(p, c[1])) => c[2] <= h

CounterAdvances ==
    \A p \in Ranks : \A t \in Threads :
        /\ i'[p][t] \in {i[p][t], i[p][t] + 1}
        /\ (AfterHit(p, t) \/ pc[p][t] = "exit") =>
              /\ AfterHit(p, t)' \/ pc'[p][t] = "exit"
              /\ i'[p][t] = i[p][t]

TopStep(p, t) ==
    /\ mpc[p] = "search"
    /\ pc[p][t] = "top"
    /\ (pc'[p][t] # pc[p][t] \/ i'[p][t] # i[p][t])

C24_TopReadObservesSignal ==
    [][(variant = PROGP) =>
        \A p \in Ranks : \A t \in Threads :
            (TopStep(p, t) /\ found[p] # 0) =>
                (pc'[p][t] = "exit" /\ i'[p][t] = i[p][t])]_vars
====
